---- MODULE Spec2Model ----
(***************************************************************************)
(* Model of model-provider-usage-limits: the model router                  *)
(* (transformModelID, pickBestProvider), the shared cache store, the       *)
(* provider adapters with their fetch and stale fallback, and the usage    *)
(* aggregator getUsage.                                                    *)
(*                                                                         *)
(* Nullable values of the TypeScript source are sequences of length at     *)
(* most one: Null is <<>> and a present value v is <<v>>.                  *)
(*                                                                         *)
(* A model ID is a sequence of tokens.  Every token stands for the piece   *)
(* of text of the same spelling, so the ID is the concatenation of its     *)
(* tokens ("claude","-","4","-","5" is claude-4-5).  The token set is a    *)
(* prefix-free code, so two IDs are the same string iff they are the same  *)
(* token sequence.                                                         *)
(***************************************************************************)
EXTENDS Integers, Sequences, FiniteSets, TLC

VARIABLES
    tmIn,        \* input of a transformModelID round trip
    tmOut,       \* its outputs
    current,     \* RoutingInput handed to pickBestProvider
    usageData,   \* the usage map handed to pickBestProvider
    routerOut,   \* what pickBestProvider returned
    now,         \* Date.now(), in ms from the start of the run
    cacheFile,   \* content of the shared cache file
    options,     \* UsageOptions of the adapter calls
    calls,       \* per provider: position and result of its adapter call
    usageCall,   \* the call of getUsage: its input, position and output
    fnIn,        \* arguments of the utility function applied (pace, cache age, normalization)
    fnOut,       \* what it returned
    writers,     \* per provider: how far its process is in rewriting the cache file
    plugin       \* the router plugin: its debounce fields and the events it handled

vars == <<tmIn, tmOut, current, usageData, routerOut, now, cacheFile, options, calls, usageCall,
          fnIn, fnOut, writers, plugin>>
routerVars == <<tmIn, tmOut, current, usageData, routerOut>>
adapterVars == <<now, cacheFile, options, calls>>
aggVars == <<usageCall>>
fnVars == <<fnIn, fnOut>>
raceVars == <<writers>>
pluginVars == <<plugin>>

Null == <<>>
Some(v) == <<v>>
IsNull(x) == x = <<>>
Val(x) == x[1]

----------------------------------------------------------------------------
(* Providers and provider groups                                           *)

ProviderIDs == {"anthropic", "github-copilot", "openai"}

ROUTABLE_PROVIDER_GROUPS ==
    << <<"anthropic", "github-copilot">>, <<"openai", "github-copilot">> >>

SeqIncludes(s, x) == \E i \in 1..Len(s) : s[i] = x

RECURSIVE AlternatesFrom(_, _, _, _)
\* the two nested loops of getAlternateProviders: group g, position i in it
AlternatesFrom(providerID, g, i, alternates) ==
    IF g > Len(ROUTABLE_PROVIDER_GROUPS) THEN alternates
    ELSE LET group == ROUTABLE_PROVIDER_GROUPS[g] IN
         IF ~SeqIncludes(group, providerID) \/ i > Len(group)
           THEN AlternatesFrom(providerID, g + 1, 1, alternates)
           ELSE LET p == group[i] IN
                IF p # providerID /\ ~SeqIncludes(alternates, p)
                  THEN AlternatesFrom(providerID, g, i + 1, Append(alternates, p))
                  ELSE AlternatesFrom(providerID, g, i + 1, alternates)

getAlternateProviders(providerID) == AlternatesFrom(providerID, 1, 1, <<>>)

----------------------------------------------------------------------------
(* Model IDs as token sequences                                            *)

DigitTokens == {"4", "20250929"}
IsDigits(t) == t \in DigitTokens
DigitCount(t) == IF t = "20250929" THEN 8 ELSE 1

\* String.prototype.toLowerCase on one token
ToLowerCase(t) == IF t = "Claude" THEN "claude" ELSE t

\* number of digit tokens at the end of s[1..n]
RECURSIVE TrailingDigitTokens(_, _)
TrailingDigitTokens(s, n) ==
    IF n = 0 \/ ~IsDigits(s[n]) THEN 0 ELSE 1 + TrailingDigitTokens(s, n - 1)

RECURSIVE DigitsIn(_, _, _)
\* number of digit characters in s[a..b]
DigitsIn(s, a, b) == IF a > b THEN 0 ELSE DigitCount(s[a]) + DigitsIn(s, a + 1, b)

\* .replace(/-\d{8}$/, '')
StripDateSuffix(s) ==
    LET n == Len(s)
        k == TrailingDigitTokens(s, n)
    IN  IF k > 0 /\ n > k /\ s[n - k] = "-" /\ DigitsIn(s, n - k + 1, n) = 8
          THEN SubSeq(s, 1, n - k - 1)
          ELSE s

\* .replace(/-latest$/, '')
StripLatestSuffix(s) ==
    LET n == Len(s)
    IN  IF n >= 2 /\ s[n] = "latest" /\ s[n - 1] = "-"
          THEN SubSeq(s, 1, n - 2)
          ELSE s

normalizeModelID(modelID) == StripLatestSuffix(StripDateSuffix(modelID))

\* last index of the run of digit tokens starting at i (i - 1 when there is none)
RECURSIVE DigitRunEnd(_, _)
DigitRunEnd(s, i) ==
    IF i > Len(s) \/ ~IsDigits(s[i]) THEN i - 1 ELSE DigitRunEnd(s, i + 1)

\* does /-(\d+)-(\d+)(-|$)/ match at position i
VersionMatchAt(s, i) ==
    /\ i <= Len(s) /\ s[i] = "-"
    /\ LET j == DigitRunEnd(s, i + 1) IN
       /\ j >= i + 1
       /\ j + 1 <= Len(s) /\ s[j + 1] = "-"
       /\ LET k == DigitRunEnd(s, j + 2) IN
          /\ k >= j + 2
          /\ (k = Len(s) \/ s[k + 1] = "-")

RECURSIVE DashesToDots(_, _)
\* .replace(/-(\d+)-(\d+)(-|$)/g, '-$1.$2$3') scanning from position i;
\* a match consumes its closing dash, so the scan resumes after it
DashesToDots(s, i) ==
    IF i > Len(s) THEN <<>>
    ELSE IF VersionMatchAt(s, i)
      THEN LET j == DigitRunEnd(s, i + 1)
               k == DigitRunEnd(s, j + 2)
               replaced == <<"-">> \o SubSeq(s, i + 1, j) \o <<".">> \o SubSeq(s, j + 2, k)
           IN  IF k = Len(s) THEN replaced
               ELSE replaced \o <<"-">> \o DashesToDots(s, k + 2)
      ELSE <<s[i]>> \o DashesToDots(s, i + 1)

\* .replace(/-$/, '')
StripTrailingDash(s) ==
    IF Len(s) >= 1 /\ s[Len(s)] = "-" THEN SubSeq(s, 1, Len(s) - 1) ELSE s

\* .replace(/\.(\d+)/g, '-$1')
DotsToDashes(s) ==
    [i \in 1..Len(s) |->
        IF s[i] = "." /\ i < Len(s) /\ IsDigits(s[i + 1]) THEN "-" ELSE s[i]]

\* mutant: the prefix compared without lowering the name
StartsWithClaude_CaseSensitive(s) == Len(s) >= 1 /\ s[1] = "claude"

\* normalized.toLowerCase().startsWith('claude')
StartsWithClaude(s) == Len(s) >= 1 /\ ToLowerCase(s[1]) = "claude"

\* lower.startsWith('gpt-') || /^o\d/.test(lower) || lower.startsWith('codex')
IsOpenAIFamily(s) ==
    \/ Len(s) >= 2 /\ ToLowerCase(s[1]) = "gpt" /\ s[2] = "-"
    \/ Len(s) >= 2 /\ ToLowerCase(s[1]) = "o" /\ IsDigits(s[2])
    \/ Len(s) >= 1 /\ ToLowerCase(s[1]) = "codex"

IsPair(from, to, a, b) == (from = a /\ to = b) \/ (from = b /\ to = a)

transformModelID(modelID, fromProvider, toProvider) ==
    IF fromProvider = toProvider THEN Some(modelID)
    ELSE LET normalized == normalizeModelID(modelID) IN
         IF IsPair(fromProvider, toProvider, "anthropic", "github-copilot")
           THEN IF ~StartsWithClaude(normalized) THEN Null
                ELSE IF fromProvider = "anthropic"
                  THEN Some(StripTrailingDash(DashesToDots(normalized, 1)))
                  ELSE Some(DotsToDashes(normalized))
         ELSE IF IsPair(fromProvider, toProvider, "openai", "github-copilot")
           THEN IF IsOpenAIFamily(normalized) THEN Some(normalized) ELSE Null
         ELSE Null

isRoutableModel(modelID, providerID) ==
    LET alternates == getAlternateProviders(providerID) IN
    \E i \in 1..Len(alternates) :
        ~IsNull(transformModelID(modelID, providerID, alternates[i]))

----------------------------------------------------------------------------
(* pickBestProvider                                                        *)

\* usageData[p]?.data?.secondary?.<field> ?? usageData[p]?.data?.primary?.<field> ?? null
\* for a usage map that is a function on the providers it has an entry for
WindowField(usage, providerID, field) ==
    IF providerID \notin DOMAIN usage THEN Null
    ELSE LET data == usage[providerID].data IN
         IF IsNull(data) THEN Null
         ELSE LET secondary == Val(data).secondary
                  primary == Val(data).primary
                  fromSecondary == IF IsNull(secondary) THEN Null ELSE Val(secondary)[field]
                  fromPrimary == IF IsNull(primary) THEN Null ELSE Val(primary)[field]
              IN  IF ~IsNull(fromSecondary) THEN fromSecondary ELSE fromPrimary

\* usage?.data !== null  (undefined !== null holds for a provider without entry)
IsAvailable(usage, providerID) ==
    IF providerID \notin DOMAIN usage THEN TRUE
    ELSE ~IsNull(usage[providerID].data)

\* mutant: an unavailable provider scored 0 instead of Infinity
Score_NoInfinity(available, paceDelta) ==
    [inf |-> FALSE,
     val |-> IF available /\ ~IsNull(paceDelta) THEN Val(paceDelta) ELSE 0]

\* available ? (paceDelta ?? 0) : Infinity
Score(available, paceDelta) ==
    IF available
      THEN [inf |-> FALSE, val |-> IF IsNull(paceDelta) THEN 0 ELSE Val(paceDelta)]
      ELSE [inf |-> TRUE, val |-> 0]

MakeCandidate(usage, providerID, modelID) ==
    LET available == IsAvailable(usage, providerID)
        paceDelta == WindowField(usage, providerID, "paceDelta")
    IN  [providerID |-> providerID,
         modelID |-> modelID,
         available |-> available,
         paceDelta |-> paceDelta,
         usedPercent |-> WindowField(usage, providerID, "usedPercent"),
         score |-> Score(available, paceDelta)]

RECURSIVE AlternateCandidates(_, _, _, _)
\* the loop over alternates that pushes one candidate per translatable alternate
AlternateCandidates(cur, usage, alternates, i) ==
    IF i > Len(alternates) THEN <<>>
    ELSE LET altModelID == transformModelID(cur.modelID, cur.providerID, alternates[i])
             rest == AlternateCandidates(cur, usage, alternates, i + 1)
         IN  IF IsNull(altModelID) THEN rest
             ELSE <<MakeCandidate(usage, alternates[i], Val(altModelID))>> \o rest

BuildCandidates_RawModelID(cur, usage) ==
    <<MakeCandidate(usage, cur.providerID, cur.modelID)>>
        \o AlternateCandidates(cur, usage, getAlternateProviders(cur.providerID), 1)

BuildCandidates(cur, usage) ==
    <<MakeCandidate(usage, cur.providerID, normalizeModelID(cur.modelID))>>
        \o AlternateCandidates(cur, usage, getAlternateProviders(cur.providerID), 1)

\* mutant: the comparator written b.score - a.score
CompareScore_Descending(a, b) ==
    IF a.score.inf /\ b.score.inf THEN 0
    ELSE IF a.score.inf THEN -1
    ELSE IF b.score.inf THEN 1
    ELSE IF a.score.val < b.score.val THEN 1
    ELSE IF a.score.val > b.score.val THEN -1
    ELSE 0

\* the comparator (a, b) => a.score - b.score reduced to its sign;
\* Infinity - Infinity is NaN, which sort treats as 0
CompareScore(a, b) ==
    IF a.score.inf /\ b.score.inf THEN 0
    ELSE IF a.score.inf THEN 1
    ELSE IF b.score.inf THEN -1
    ELSE IF a.score.val < b.score.val THEN -1
    ELSE IF a.score.val > b.score.val THEN 1
    ELSE 0

RECURSIVE InsertSorted_Unstable(_, _)
\* mutant: x placed before the elements it ties with
InsertSorted_Unstable(sorted, x) ==
    IF sorted = <<>> THEN <<x>>
    ELSE IF CompareScore(Head(sorted), x) < 0
      THEN <<Head(sorted)>> \o InsertSorted_Unstable(Tail(sorted), x)
      ELSE <<x>> \o sorted

RECURSIVE InsertSorted(_, _)
\* x placed after every element that does not compare greater than it
InsertSorted(sorted, x) ==
    IF sorted = <<>> THEN <<x>>
    ELSE IF CompareScore(Head(sorted), x) <= 0
      THEN <<Head(sorted)>> \o InsertSorted(Tail(sorted), x)
      ELSE <<x>> \o sorted

RECURSIVE SortFrom(_, _, _)
SortFrom(cands, i, sorted) ==
    IF i > Len(cands) THEN sorted
    ELSE SortFrom(cands, i + 1, InsertSorted(sorted, cands[i]))

\* Array.prototype.sort, which is stable
SortByScore(cands) == SortFrom(cands, 1, <<>>)

\* mutant: the reason is not overridden when the router stays
Reason_NoOverride(best, switched) ==
    IF IsNull(best.paceDelta) THEN "selected (no pace data)"
    ELSE IF Val(best.paceDelta) < 0 THEN "has most headroom"
    ELSE IF Val(best.paceDelta) > 0 THEN "selected (but best available)"
    ELSE "is on pace (0%)"

Reason(best, switched) ==
    IF ~switched THEN "staying on (already best)"
    ELSE IF IsNull(best.paceDelta) THEN "selected (no pace data)"
    ELSE IF Val(best.paceDelta) < 0 THEN "has most headroom"
    ELSE IF Val(best.paceDelta) > 0 THEN "selected (but best available)"
    ELSE "is on pace (0%)"

\* mutant: the routability check passes whenever the provider has an alternate
HasAlternates_AnyAlternate(cur) == getAlternateProviders(cur.providerID) # <<>>

\* alternates.some(alt => transformModelID(currentModelID, currentProvider, alt) !== null)
HasAlternates(cur) ==
    LET alternates == getAlternateProviders(cur.providerID) IN
    \E i \in 1..Len(alternates) :
        transformModelID(cur.modelID, cur.providerID, alternates[i]) # Null

\* the local `candidates` after the sort (empty when the function returned before building it)
SortedCandidates(cur, usage) ==
    IF ~HasAlternates(cur) THEN <<>>
    ELSE SortByScore(BuildCandidates(cur, usage))

pickBestProvider(cur, usage) ==
    IF ~HasAlternates(cur) THEN Null
    ELSE LET candidates == SortedCandidates(cur, usage)
             best == candidates[1]
             switched == best.providerID # cur.providerID
         IN  IF ~best.available THEN Null
             ELSE Some([providerID |-> best.providerID,
                        modelID |-> best.modelID,
                        reason |-> Reason(best, switched),
                        candidates |-> candidates,
                        switched |-> switched])

----------------------------------------------------------------------------
(* Cache store                                                             *)

DEFAULT_CACHE_TTL_MS == 60000
STALE_THRESHOLD_MS == 600000

\* A timestamp is a number of ms.  A Date holds at most 8.64e15 ms on either
\* side of the epoch; "above" and "below" stand for the numbers beyond that.
OkTime(ms) == [range |-> "ok", ms |-> ms]
AboveDateRange == [range |-> "above", ms |-> 0]
BelowDateRange == [range |-> "below", ms |-> 0]

\* The file is absent, is not JSON ("malformed"), is JSON for a truthy value
\* that is no object ("primitive", such as 5), or is an object of entries.
AbsentFile == [kind |-> "absent", entries |-> <<>>]
MalformedFile == [kind |-> "malformed", entries |-> <<>>]
PrimitiveFile == [kind |-> "primitive", entries |-> <<>>]
ObjectFile(entries) == [kind |-> "object", entries |-> entries]

\* typeof entry.timestamp !== 'number' || !entry.data
IsInvalidEntry(entry) == IsNull(entry.timestamp) \/ IsNull(entry.data)

\* readCentralizedCache: null, or what JSON.parse gave
readCentralizedCache(file) ==
    IF file.kind \in {"absent", "malformed"} THEN Null
    ELSE IF \E p \in DOMAIN file.entries : IsInvalidEntry(file.entries[p]) THEN Null
    ELSE Some(file)

\* mutant: the snapshot of the entry is normalized again at the time of the read
EntryOf_Recomputed(cache, p) ==
    IF IsNull(cache) THEN Null
    ELSE IF p \in DOMAIN Val(cache).entries
      THEN Some([Val(cache).entries[p] EXCEPT !.data = Some([provider |-> p, computedAt |-> now])])
    ELSE Null

\* cache?.[PROVIDER_ID]
EntryOf(cache, p) ==
    IF IsNull(cache) THEN Null
    ELSE IF p \in DOMAIN Val(cache).entries THEN Some(Val(cache).entries[p])
    ELSE Null

isCacheFresh_IgnoresTTL(entry, ttlMs, t) == Val(entry.timestamp).range # "below"

\* Date.now() - entry.timestamp < ttlMs, at time t
isCacheFresh(entry, ttlMs, t) ==
    LET ts == Val(entry.timestamp) IN
    IF ts.range = "above" THEN TRUE
    ELSE IF ts.range = "below" THEN FALSE
    ELSE t - ts.ms < ttlMs

\* getCacheMetadata at time t: new Date(timestamp).toISOString() throws a
\* RangeError for a timestamp outside the range of Date
getCacheMetadata(entry, t) ==
    LET ts == Val(entry.timestamp) IN
    IF ts.range # "ok" THEN [threw |-> TRUE]
    ELSE [threw |-> FALSE,
          meta |-> [age |-> t - ts.ms,
                    timestamp |-> ts.ms,
                    updatedAt |-> ts.ms,
                    stale |-> t - ts.ms > STALE_THRESHOLD_MS]]

updateProviderInCache_Overwrites(file, provider, snapshot, t) ==
    [threw |-> FALSE,
     file |-> ObjectFile([q \in {provider} |->
                             [timestamp |-> Some(OkTime(t)), data |-> Some(snapshot)]])]

updateProviderInCache_WrongKey(file, provider, snapshot, t) ==
    LET cache == readCentralizedCache(file)
        entry == [timestamp |-> Some(OkTime(t)), data |-> Some(snapshot)]
    IN  IF IsNull(cache)
          THEN [threw |-> FALSE, file |-> ObjectFile([q \in {"anthropic"} |-> entry])]
        ELSE IF file.kind = "primitive" THEN [threw |-> TRUE, file |-> file]
        ELSE [threw |-> FALSE,
              file |-> ObjectFile([q \in DOMAIN file.entries \cup {"anthropic"} |->
                                      IF q = "anthropic" THEN entry ELSE file.entries[q]])]

\* updateProviderInCache at time t: the file it leaves; cache[provider] = ... on
\* a primitive throws a TypeError (module code is strict)
updateProviderInCache(file, provider, snapshot, t) ==
    LET cache == readCentralizedCache(file)
        entry == [timestamp |-> Some(OkTime(t)), data |-> Some(snapshot)]
    IN  IF IsNull(cache)
          THEN [threw |-> FALSE, file |-> ObjectFile([q \in {provider} |-> entry])]
        ELSE IF file.kind = "primitive" THEN [threw |-> TRUE, file |-> file]
        ELSE [threw |-> FALSE,
              file |-> ObjectFile([q \in DOMAIN file.entries \cup {provider} |->
                                      IF q = provider THEN entry ELSE file.entries[q]])]

----------------------------------------------------------------------------
(* Provider adapters: getAnthropicUsage, getCopilotUsage, getCodexUsage    *)

DEFAULT_TIMEOUT_MS == 5000

ErrorCodes == {"API_ERROR", "TIMEOUT", "UNKNOWN"}

\* new ProviderUsageError(message, provider, code, cause)
ProviderUsageError(code, cause) == [isProviderUsageError |-> TRUE, code |-> code, cause |-> cause]

\* any other thrown value: an AbortError, the TypeError of a failed fetch or of a
\* property read, the SyntaxError of response.json()
Thrown(name) == [isProviderUsageError |-> FALSE, name |-> name]

UsageResult_NoCacheMeta(p, data, error, cache) ==
    [provider |-> p, data |-> data, error |-> error, cache |-> Null]

UsageResult(p, data, error, cache) ==
    [provider |-> p, data |-> data, error |-> error, cache |-> cache]

\* pc: idle, no call made yet; fetching, awaiting fetch() with the timer armed;
\* reading, awaiting response.json() with the timer cleared; returned; threw.
\* outcome is what the network did in this call, origin the return statement
\* the call left through, reads the number of times it read the cache file.
IdleCall ==
    [pc |-> "idle", n |-> 0, token |-> Null, bypassCache |-> FALSE, startedAt |-> 0,
     fetches |-> 0, reads |-> 0, outcome |-> "none", caught |-> Null,
     origin |-> "none", result |-> Null]

\* options?.cacheTTL ?? DEFAULT_CACHE_TTL_MS
CacheTTL(opts) == IF IsNull(opts.cacheTTL) THEN DEFAULT_CACHE_TTL_MS ELSE Val(opts.cacheTTL)

\* options.timeout ?? DEFAULT_TIMEOUT_MS
Timeout(opts) == IF IsNull(opts.timeout) THEN DEFAULT_TIMEOUT_MS ELSE Val(opts.timeout)

\* normalize<Provider>Usage(data) at time t; the windows' pace is computed at t
NormalizedSnapshot(p, t) == [provider |-> p, computedAt |-> t]

MaxCalls == 2

CallsMade == calls["anthropic"].n + calls["github-copilot"].n + calls["openai"].n

\* the timer set by fetchWithTimeout has reached its deadline
TimerDue(p) == calls[p].pc = "fetching" /\ now - calls[p].startedAt >= Timeout(options)

\* mutant: the token is not looked at
TokenMissing_Never(token) == FALSE

\* !token: null, or the empty string
TokenMissing(token) == IsNull(token) \/ Val(token) = ""

\* the adapter of p called at time `now`, run up to its first await: the state
\* of the call after the token check and the look into the cache
BeginCall(p, token, opts) ==
    LET cache == IF opts.bypassCache THEN Null ELSE readCentralizedCache(cacheFile)
        cachedEntry == EntryOf(cache, p)
        begun == [IdleCall EXCEPT !.n = calls[p].n + 1, !.token = token,
                                  !.bypassCache = opts.bypassCache, !.startedAt = now]
    IN
    IF TokenMissing(token)
      THEN [begun EXCEPT !.pc = "returned", !.origin = "no-token",
                         !.result = Some(UsageResult(p, Null, Null, Null))]
    ELSE IF ~IsNull(cachedEntry) /\ isCacheFresh(Val(cachedEntry), CacheTTL(opts), now)
      THEN LET md == getCacheMetadata(Val(cachedEntry), now) IN
           IF md.threw
             THEN [begun EXCEPT !.pc = "threw", !.reads = 1]
             ELSE [begun EXCEPT !.pc = "returned", !.reads = 1, !.origin = "fresh-cache",
                                !.result = Some(UsageResult(p, Val(cachedEntry).data,
                                                            Null, Some(md.meta)))]
    ELSE [begun EXCEPT !.pc = "fetching", !.fetches = 1,
                       !.reads = IF opts.bypassCache THEN 0 ELSE 1]

\* a call of the adapter of p: no token, fresh cache hit, or fetch issued
StartCall(p, token, opts) ==
    /\ calls[p].pc \in {"idle", "returned"}
    /\ CallsMade < MaxCalls
    /\ calls' = [calls EXCEPT ![p] = BeginCall(p, token, opts)]
    /\ UNCHANGED <<now, cacheFile, options, routerVars, aggVars, fnVars, raceVars, pluginVars>>

\* mutant: the error is left out of a result that has no cached data
ErrorOnlyResult_NoError(p, providerError) == UsageResult(p, Null, Null, Null)

\* return { provider, data: null, error: providerError }
ErrorOnlyResult(p, providerError) == UsageResult(p, Null, Some(providerError), Null)

\* the catch block: wrap the error, fall back to whatever the cache holds
CatchBlock(p, outcome, error) ==
    LET providerError == IF error.isProviderUsageError THEN error
                         ELSE ProviderUsageError("UNKNOWN", Some(error))
        staleCache == EntryOf(readCentralizedCache(cacheFile), p)
        caught == [calls[p] EXCEPT !.outcome = outcome, !.caught = Some(providerError),
                                   !.reads = @ + 1]
    IN
    IF ~IsNull(staleCache)
      THEN LET md == getCacheMetadata(Val(staleCache), now) IN
           IF md.threw
             THEN [calls EXCEPT ![p] = [caught EXCEPT !.pc = "threw"]]
             ELSE [calls EXCEPT ![p] =
                     [caught EXCEPT !.pc = "returned", !.origin = "stale-cache",
                                    !.result = Some(UsageResult(p, Val(staleCache).data,
                                                                Some(providerError),
                                                                Some(md.meta)))]]
      ELSE [calls EXCEPT ![p] =
              [caught EXCEPT !.pc = "returned", !.origin = "error-only",
                             !.result = Some(ErrorOnlyResult(p, providerError))]]

\* the catch block of fetchWithTimeout: what it throws for a rejection of fetch
FetchRejection(name) ==
    IF name = "AbortError" THEN ProviderUsageError("TIMEOUT", Some(Thrown(name)))
    ELSE ProviderUsageError("API_ERROR", Some(Thrown(name)))

\* the response headers arrive before the deadline: the timer is cleared; a
\* status that is not 2xx is thrown as API_ERROR, otherwise the body is awaited
ReceiveHeaders(p, ok) ==
    /\ calls[p].pc = "fetching" /\ ~TimerDue(p)
    /\ IF ok THEN calls' = [calls EXCEPT ![p].pc = "reading"]
             ELSE calls' = CatchBlock(p, "http-status", ProviderUsageError("API_ERROR", Null))
    /\ UNCHANGED <<now, cacheFile, options, routerVars, aggVars, fnVars, raceVars, pluginVars>>

\* the deadline passes without response headers: controller.abort() makes fetch
\* reject with an AbortError
TimerFires(p) ==
    /\ TimerDue(p)
    /\ calls' = CatchBlock(p, "timeout", FetchRejection("AbortError"))
    /\ UNCHANGED <<now, cacheFile, options, routerVars, aggVars, fnVars, raceVars, pluginVars>>

\* the connection fails: fetch rejects with a TypeError, or, once the headers
\* are in, response.json() does
NetworkFails(p) ==
    /\ \/ calls[p].pc = "fetching" /\ ~TimerDue(p)
       \/ calls[p].pc = "reading"
    /\ calls' = CatchBlock(p, "network",
                           IF calls[p].pc = "fetching" THEN FetchRejection("TypeError")
                           ELSE Thrown("TypeError"))
    /\ UNCHANGED <<now, cacheFile, options, routerVars, aggVars, fnVars, raceVars, pluginVars>>

FetchFails_ClearsCache(p, body) ==
    /\ calls[p].pc = "reading"
    /\ body \in {"unparsable", "unreadable"}
    /\ calls' = CatchBlock(p, body,
                           Thrown(IF body = "unparsable" THEN "SyntaxError" ELSE "TypeError"))
    /\ cacheFile' = AbsentFile
    /\ UNCHANGED <<now, options, routerVars, aggVars, fnVars, raceVars, pluginVars>>

\* the body arrives and is no JSON (response.json() throws a SyntaxError) or is
\* JSON the normalization cannot read, such as null (a TypeError)
FetchFails(p, body) ==
    /\ calls[p].pc = "reading"
    /\ body \in {"unparsable", "unreadable"}
    /\ calls' = CatchBlock(p, body,
                           Thrown(IF body = "unparsable" THEN "SyntaxError" ELSE "TypeError"))
    /\ UNCHANGED <<now, cacheFile, options, routerVars, aggVars, fnVars, raceVars, pluginVars>>

\* the body arrives well-formed: normalize, update the cache, return
FetchSucceeds(p) ==
    /\ calls[p].pc = "reading"
    /\ LET snapshot == NormalizedSnapshot(p, now)
           updated == updateProviderInCache(cacheFile, p, snapshot, now)
       IN
       IF updated.threw
         THEN /\ calls' = CatchBlock(p, "usage", Thrown("TypeError"))
              /\ UNCHANGED cacheFile
         ELSE /\ cacheFile' = updated.file
              /\ calls' = [calls EXCEPT
                             ![p].pc = "returned",
                             ![p].outcome = "usage",
                             ![p].reads = @ + 1,
                             ![p].origin = "live",
                             ![p].result = Some(UsageResult(p, Some(snapshot), Null, Null))]
    /\ UNCHANGED <<now, options, routerVars, aggVars, fnVars, raceVars, pluginVars>>

MaxTicks == 1

\* time passes, once every timer that is due has fired
Tick ==
    /\ now < MaxTicks * DEFAULT_CACHE_TTL_MS
    /\ \E p \in ProviderIDs : calls[p].pc # "idle"
    /\ \A p \in ProviderIDs : ~TimerDue(p)
    /\ now' = now + DEFAULT_CACHE_TTL_MS
    /\ UNCHANGED <<cacheFile, options, calls, routerVars, aggVars, fnVars, raceVars, pluginVars>>

----------------------------------------------------------------------------
(* Usage aggregator: getUsage                                              *)

\* the token argument; for getCodexUsage, what getCodexToken() finds
Tokens == {Null, Some(""), Some("token")}

\* scenarios generateTestUsage knows; any other value of the variable gives {}
TestScenarios == {"over-pace", "under-pace", "balanced", "anthropic-high", "copilot-high"}

\* generateTestUsage(scenario) at time t: canned snapshots of two providers
generateTestUsage(scenario, t) ==
    IF scenario \in TestScenarios
      THEN [p \in {"anthropic", "github-copilot"} |-> NormalizedSnapshot(p, t)]
      ELSE <<>>

\* (Object.keys(tokens)).filter(p => tokens[p] !== undefined)
ProvidersToFetch(tokens) == {p \in DOMAIN tokens : tokens[p].defined}

\* what an adapter reads from an options argument that is a string or null
NoOptions == [bypassCache |-> FALSE, cacheTTL |-> Null, timeout |-> Null]

\* fetcher(token, fetchOptions): getCodexUsage has the single parameter
\* options, so it is handed the token as its options and takes its token from
\* getCodexToken()
DispatchedCall(p, tokens, codexToken) ==
    IF p = "openai" THEN BeginCall(p, codexToken, NoOptions)
    ELSE BeginCall(p, tokens[p].token, options)

\* getUsage up to its await: the canned results in test mode, otherwise one
\* adapter call per provider to fetch, each run up to its first await
GetUsage ==
    /\ usageCall.pc = "idle"
    /\ IF usageCall.testMode
         THEN LET testData == generateTestUsage(usageCall.scenario, now) IN
              /\ usageCall' = [usageCall EXCEPT
                                 !.pc = "returned",
                                 !.results = [p \in DOMAIN testData |->
                                                 UsageResult(p, Some(testData[p]), Null, Null)]]
              /\ UNCHANGED calls
         ELSE LET providersToFetch == ProvidersToFetch(usageCall.tokens) IN
              /\ \E codexToken \in IF "openai" \in providersToFetch THEN Tokens ELSE {Null} :
                    calls' = [p \in ProviderIDs |->
                                 IF p \in providersToFetch
                                   THEN DispatchedCall(p, usageCall.tokens, codexToken)
                                   ELSE calls[p]]
              /\ usageCall' = [usageCall EXCEPT !.pc = "waiting",
                                                !.dispatched = providersToFetch]
    /\ UNCHANGED <<now, cacheFile, options, routerVars, fnVars, raceVars, pluginVars>>

\* await Promise.all(fetchPromises): rejected as soon as one adapter call has
\* rejected, fulfilled once all have returned; then the results are merged
GetUsageSettles ==
    /\ usageCall.pc = "waiting"
    /\ IF \E p \in usageCall.dispatched : calls[p].pc = "threw"
         THEN usageCall' = [usageCall EXCEPT !.pc = "threw"]
         ELSE /\ \A p \in usageCall.dispatched : calls[p].pc = "returned"
              /\ usageCall' = [usageCall EXCEPT
                                 !.pc = "returned",
                                 !.results = [p \in usageCall.dispatched |->
                                                 Val(calls[p].result)]]
    /\ UNCHANGED <<now, cacheFile, options, calls, routerVars, fnVars, raceVars, pluginVars>>

----------------------------------------------------------------------------
(* The cache file shared by several processes                              *)
(*                                                                         *)
(* Each provider's adapter runs in a process of its own.  The file is not  *)
(* locked, and updateProviderInCache is three steps to the other process:  *)
(* readFileSync, then writeFileSync opening the file (which empties it)    *)
(* and writing the new content.  An empty file is no JSON.  A write that   *)
(* lands on a file in which the other process has written since it was     *)
(* emptied leaves either the new content or, when the new content is the   *)
(* shorter one, the new content followed by the rest of the old, which is  *)
(* no JSON.                                                                *)

\* pc: idle; read, the file read and the new content prepared; truncated, the
\* file opened for writing.  overlapped: the other process has written since.
IdleWriter == [pc |-> "idle", snapshot |-> Null, pending |-> Null, overlapped |-> FALSE]

MaxCallsPerProcess == 2

\* the process of p calls its adapter, with the token it holds
ProcessCalls(p) ==
    /\ calls[p].pc \in {"idle", "returned"}
    /\ calls[p].n < MaxCallsPerProcess
    /\ calls' = [calls EXCEPT ![p] = BeginCall(p, Some("token"), options)]
    /\ UNCHANGED <<now, cacheFile, options, routerVars, aggVars, fnVars, raceVars, pluginVars>>

\* readCentralizedCache and the assignment of the entry, in updateProviderInCache
UpdateReads(p) ==
    /\ calls[p].pc = "reading"
    /\ LET snapshot == NormalizedSnapshot(p, now)
           updated == updateProviderInCache(cacheFile, p, snapshot, now)
       IN
       IF updated.threw
         THEN /\ calls' = CatchBlock(p, "usage", Thrown("TypeError"))
              /\ UNCHANGED writers
         ELSE /\ calls' = [calls EXCEPT ![p].pc = "updating",
                                        ![p].outcome = "usage",
                                        ![p].reads = @ + 1]
              /\ writers' = [writers EXCEPT ![p] = [pc |-> "read",
                                                    snapshot |-> Some(snapshot),
                                                    pending |-> Some(updated.file),
                                                    overlapped |-> FALSE]]
    /\ UNCHANGED <<now, cacheFile, options, routerVars, aggVars, fnVars, pluginVars>>

\* writeFileSync opens the file for writing: it exists and is empty
UpdateTruncates(p) ==
    /\ writers[p].pc = "read"
    /\ writers' = [writers EXCEPT ![p].pc = "truncated"]
    /\ cacheFile' = MalformedFile
    /\ UNCHANGED <<now, options, calls, routerVars, aggVars, fnVars, pluginVars>>

\* writeFileSync writes the content, and the adapter returns the live snapshot
UpdateWrites(p) ==
    /\ writers[p].pc = "truncated"
    /\ \E content \in {Val(writers[p].pending)} \cup
                        (IF writers[p].overlapped THEN {MalformedFile} ELSE {}) :
          cacheFile' = content
    /\ writers' = [q \in ProviderIDs |->
                      IF q = p THEN IdleWriter
                      ELSE IF writers[q].pc = "truncated"
                        THEN [writers[q] EXCEPT !.overlapped = TRUE]
                      ELSE writers[q]]
    /\ calls' = [calls EXCEPT
                   ![p].pc = "returned",
                   ![p].origin = "live",
                   ![p].result = Some(UsageResult(p, writers[p].snapshot, Null, Null))]
    /\ UNCHANGED <<now, options, routerVars, aggVars, fnVars, pluginVars>>

----------------------------------------------------------------------------
(* Pace: calculatePaceDelta                                                *)
(*                                                                         *)
(* A window label is a sequence of tokens: the digits, "h", "d", and       *)
(* "monthly" for the label of github-copilot.  Times handed to the pace    *)
(* computation are counted in minutes, so that an hour is 60 and a day is  *)
(* 24 * 60; the ratio of elapsed time to window length does not depend on  *)
(* the unit.  A JavaScript number is either NaN or a value.                *)

NaN == [nan |-> TRUE, val |-> 0]
Num(v) == [nan |-> FALSE, val |-> v]

\* a - b
Minus(a, b) == IF a.nan \/ b.nan THEN NaN ELSE Num(a.val - b.val)

\* a <= 0, which is false for NaN
LessEqZero(a) == ~a.nan /\ a.val <= 0

DecimalDigits == <<"0", "1", "2", "3", "4", "5", "6", "7", "8", "9">>

Digits == {DecimalDigits[i] : i \in 1..Len(DecimalDigits)}

DigitValue(c) == (CHOOSE i \in 1..Len(DecimalDigits) : DecimalDigits[i] = c) - 1

RECURSIVE parseInt10(_)
\* parseInt(digits, 10) of a non-empty run of digits
parseInt10(digits) ==
    IF Len(digits) = 0 THEN 0
    ELSE 10 * parseInt10(SubSeq(digits, 1, Len(digits) - 1)) + DigitValue(digits[Len(digits)])

\* window.match(/^(\d+)([hd])$/), then the value times the length of the unit
parseWindowToMs(window) ==
    IF /\ Len(window) >= 2
       /\ \A i \in 1..(Len(window) - 1) : window[i] \in Digits
       /\ window[Len(window)] \in {"h", "d"}
      THEN LET value == parseInt10(SubSeq(window, 1, Len(window) - 1)) IN
           Some(IF window[Len(window)] = "h" THEN value * 60 ELSE value * 24 * 60)
      ELSE Null

\* new Date(resetsAt).getTime(): NaN for a string that is no date
getTime(resetsAt) == IF resetsAt.parsable THEN Num(resetsAt.at) ELSE NaN

MathRound_Truncating(num, den) ==
    IF num >= 0 THEN num \div den ELSE -((-num) \div den)

\* Math.round(num / den) for den > 0: the nearest integer, a half goes up
MathRound(num, den) == (2 * num + den) \div (2 * den)

\* calculatePaceDelta(usedPercent, window, resetsAt) with Date.now() = t
calculatePaceDelta(usedPercent, window, resetsAt, t) ==
    IF IsNull(resetsAt) THEN Null
    ELSE
    LET windowDurationMs == parseWindowToMs(window) IN
    IF IsNull(windowDurationMs) THEN Null
    ELSE
    LET resetTime == getTime(Val(resetsAt))
        timeRemainingMs == Minus(resetTime, Num(t))
        timeElapsedMs == Minus(Num(Val(windowDurationMs)), timeRemainingMs)
    IN
    IF LessEqZero(timeElapsedMs) \/ LessEqZero(timeRemainingMs) THEN Null
    ELSE IF timeElapsedMs.nan \/ usedPercent.nan THEN Some(NaN)
    ELSE Some(Num(MathRound(usedPercent.val * Val(windowDurationMs)
                                - 100 * timeElapsedMs.val,
                            Val(windowDurationMs))))

----------------------------------------------------------------------------
(* Normalization of the upstream responses                                 *)
(*                                                                         *)
(* A response is a record of its fields; a field the response lacks is     *)
(* Null.  Undefined is the value of a property that was read from a        *)
(* missing field and stored as it is.                                      *)

Undefined == <<"undefined", "undefined">>

\* what a normalization gives: a snapshot, or the TypeError it throws
Normalized(snapshot) == [threw |-> FALSE, snapshot |-> snapshot]
NormalizationThrows == [threw |-> TRUE, snapshot |-> Null]

\* x ?? d
OrElse(x, d) == IF IsNull(x) THEN d ELSE Val(x)

\* normalizeAnthropicUsage(data) at time t
normalizeAnthropicUsage(data, t) ==
    LET Window(w, label) ==
            IF IsNull(w) THEN Null
            ELSE LET used == Num(OrElse(Val(w).utilization, 0))
                     resets == Val(w).resets_at
                 IN Some([usedPercent |-> used,
                          window |-> label,
                          resetsAt |-> resets,
                          paceDelta |-> calculatePaceDelta(used, label, resets, t)])
    IN Normalized([provider |-> "anthropic",
                   primary |-> Window(data.five_hour, <<"5", "h">>),
                   secondary |-> Window(data.seven_day, <<"7", "d">>)])

RECURSIVE ToDigits(_)
\* the decimal digits of a natural number
ToDigits(n) ==
    IF n < 10 THEN <<DecimalDigits[n + 1]>>
    ELSE Append(ToDigits(n \div 10), DecimalDigits[(n % 10) + 1])

\* formatWindow(seconds)
formatWindow(seconds) ==
    IF seconds >= 86400 THEN Append(ToDigits(MathRound(seconds, 86400)), "d")
    ELSE Append(ToDigits(MathRound(seconds, 3600)), "h")

\* normalizeCodexUsage(data) at time t; reset_at is in seconds
normalizeCodexUsage(data, t) ==
    LET Window(w) ==
            IF IsNull(w) THEN Null
            ELSE LET used == Num(OrElse(Val(w).used_percent, 0))
                     label == formatWindow(OrElse(Val(w).limit_window_seconds, 0))
                     resets == IF IsNull(Val(w).reset_at) \/ Val(Val(w).reset_at) = 0
                                 THEN Null
                                 ELSE Some([parsable |-> TRUE,
                                            at |-> Val(Val(w).reset_at) \div 60])
                 IN Some([usedPercent |-> used,
                          window |-> label,
                          resetsAt |-> resets,
                          paceDelta |-> calculatePaceDelta(used, label, resets, t)])
        primary == IF IsNull(data.rate_limit) THEN Null
                   ELSE Val(data.rate_limit).primary_window
        secondary == IF IsNull(data.rate_limit) THEN Null
                     ELSE Val(data.rate_limit).secondary_window
    IN Normalized([provider |-> "openai",
                   primary |-> Window(primary),
                   secondary |-> Window(secondary)])

\* mutant: the monthly quota labelled as a window of thirty days
normalizeCopilotUsage_ThirtyDays(data, t) ==
    IF IsNull(data.quota_snapshots) THEN NormalizationThrows
    ELSE
    LET premium == Val(data.quota_snapshots).premium_interactions IN
    IF IsNull(premium) THEN NormalizationThrows
    ELSE
    LET usedPercent == IF IsNull(Val(premium).percent_remaining) THEN NaN
                       ELSE Num(MathRound(100 - Val(Val(premium).percent_remaining), 1))
    IN Normalized([provider |-> "github-copilot",
                   primary |-> Some([usedPercent |-> usedPercent,
                                     window |-> <<"3", "0", "d">>,
                                     resetsAt |-> data.quota_reset_date,
                                     paceDelta |-> calculatePaceDelta(usedPercent,
                                                       <<"3", "0", "d">>,
                                                       data.quota_reset_date, t)]),
                   secondary |-> Null])

\* normalizeCopilotUsage(data) at time t: reading a property of the missing
\* quota_snapshots or premium_interactions throws a TypeError
normalizeCopilotUsage(data, t) ==
    IF IsNull(data.quota_snapshots) THEN NormalizationThrows
    ELSE
    LET premium == Val(data.quota_snapshots).premium_interactions IN
    IF IsNull(premium) THEN NormalizationThrows
    ELSE
    LET usedPercent == IF IsNull(Val(premium).percent_remaining) THEN NaN
                       ELSE Num(MathRound(100 - Val(Val(premium).percent_remaining), 1))
        resetsAt == IF IsNull(data.quota_reset_date) THEN Undefined
                    ELSE data.quota_reset_date
    IN Normalized([provider |-> "github-copilot",
                   primary |-> Some([usedPercent |-> usedPercent,
                                     window |-> <<"monthly">>,
                                     resetsAt |-> resetsAt,
                                     paceDelta |-> calculatePaceDelta(usedPercent, <<"monthly">>,
                                                                      resetsAt, t)]),
                   secondary |-> Null])

\* the normalization of the adapter of p
normalizeUsage(p, data, t) ==
    CASE p = "anthropic" -> normalizeAnthropicUsage(data, t)
      [] p = "openai" -> normalizeCodexUsage(data, t)
      [] p = "github-copilot" -> normalizeCopilotUsage(data, t)

----------------------------------------------------------------------------
(* The router plugin: its event handler up to the debounce                 *)
(*                                                                         *)
(* plugin.events lists the events handed to the handler, each with the     *)
(* time it arrived and whether the handler went on to process it (fetch    *)
(* the messages and the usage, route) or returned before.                  *)

MaxEvents == 4

MaxClockSteps == 3

Sessions == {"s1", "s2"}

EventTypes == {"session.idle", "message.updated"}

\* event({ event }) with Date.now() = now
HandleEvent(type, sessionID) ==
    /\ Len(plugin.events) < MaxEvents
    /\ LET Seen(processed) == [type |-> type, sessionID |-> sessionID, at |-> now,
                               processed |-> processed]
       IN
       IF type # "session.idle"
         THEN plugin' = [plugin EXCEPT
                           !.events = Append(@, Seen(FALSE))]
       ELSE IF /\ Some(sessionID) = plugin.lastProcessedSessionId
               /\ now - plugin.lastProcessedTime < 2000
         THEN plugin' = [plugin EXCEPT
                           !.events = Append(@, Seen(FALSE))]
       ELSE plugin' = [lastProcessedSessionId |-> Some(sessionID),
                       lastProcessedTime |-> now,
                       events |-> Append(plugin.events, Seen(TRUE))]
    /\ UNCHANGED <<routerVars, adapterVars, aggVars, fnVars, raceVars>>

\* a second passes
ClockAdvances ==
    /\ now < MaxClockSteps * 1000
    /\ now' = now + 1000
    /\ UNCHANGED <<cacheFile, options, calls, routerVars, aggVars, fnVars, raceVars, pluginVars>>

----------------------------------------------------------------------------
(* Inputs of the pure functions                                            *)

MaxTailLen == 4

HeadTokens == {"claude", "Claude", "gpt", "o", "codex", "sonnet"}
TailTokens == {"-", ".", "4", "20250929", "latest"}

RECURSIVE SeqsUpTo(_, _)
\* the sequences over S of length at most n
SeqsUpTo(S, n) ==
    IF n = 0 THEN {<<>>}
    ELSE LET shorter == SeqsUpTo(S, n - 1) IN
         shorter \cup {Append(s, t) : s \in shorter, t \in S}

\* model IDs: a leading word followed by at most MaxTailLen further tokens
ModelIDs == {<<h>> \o tail : h \in HeadTokens, tail \in SeqsUpTo(TailTokens, MaxTailLen)}

\* model IDs handed to the router
RouterModelIDs ==
    { <<"claude", "-", "sonnet", "-", "4", "-", "4", "-", "20250929">>,
      <<"claude", "-", "4", ".", "4">>,
      <<"o", "4", "-", "latest">>,
      <<"sonnet", "-", "4">> }

\* pace deltas of the windows: behind pace, on pace, ahead of pace
PrimaryPaceDeltas == {Null, Some(-15), Some(0), Some(20)}
SecondaryPaceDeltas == {Null, Some(-15), Some(20)}

PrimaryWindows == [usedPercent : {Some(30)}, paceDelta : PrimaryPaceDeltas]
SecondaryWindows == [usedPercent : {Some(70)}, paceDelta : SecondaryPaceDeltas]

Snapshots ==
    [primary : {Null} \cup {Some(w) : w \in PrimaryWindows},
     secondary : {Null} \cup {Some(w) : w \in SecondaryWindows}]

\* the part of a UsageResult the router reads
RouterUsageResults == [data : {Null} \cup {Some(s) : s \in Snapshots}]

\* Partial<Record<ProviderID, UsageResult>>
UsageMaps == UNION {[ps -> RouterUsageResults] : ps \in SUBSET ProviderIDs}

NotCalled == [called |-> FALSE]

----------------------------------------------------------------------------
(* Specification of the model ID translation                               *)

IdleTransform == /\ tmIn = [modelID |-> <<>>, from |-> "anthropic", to |-> "anthropic"]
                 /\ tmOut = NotCalled

IdleAdapters == /\ now = 0
                /\ cacheFile = AbsentFile
                /\ options = [bypassCache |-> FALSE, cacheTTL |-> Null, timeout |-> Null]
                /\ calls = [p \in ProviderIDs |-> IdleCall]

IdleAggregator == usageCall = [pc |-> "idle"]

IdleFn == /\ fnIn = [fn |-> "none"]
          /\ fnOut = NotCalled

IdleRace == writers = [p \in ProviderIDs |-> IdleWriter]

IdlePlugin == plugin = [lastProcessedSessionId |-> Null, lastProcessedTime |-> 0,
                        events |-> <<>>]

IdleUtilities == IdleFn /\ IdleRace /\ IdlePlugin

IdleRouter == /\ current = [providerID |-> "anthropic", modelID |-> <<>>]
              /\ usageData = <<>>
              /\ routerOut = NotCalled

InitTransform ==
    /\ tmIn \in [modelID : ModelIDs, from : ProviderIDs, to : ProviderIDs]
    /\ tmOut = NotCalled
    /\ IdleRouter
    /\ IdleAdapters
    /\ IdleAggregator
    /\ IdleUtilities

\* transformModelID(m, from, to) and, when it succeeds, the way back
TransformRoundTrip ==
    /\ ~tmOut.called
    /\ LET out == transformModelID(tmIn.modelID, tmIn.from, tmIn.to) IN
       tmOut' = [called |-> TRUE,
                 out |-> out,
                 back |-> IF IsNull(out) THEN Null
                          ELSE transformModelID(Val(out), tmIn.to, tmIn.from),
                 routable |-> isRoutableModel(tmIn.modelID, tmIn.from)]
    /\ UNCHANGED <<tmIn, current, usageData, routerOut, adapterVars, aggVars, fnVars, raceVars, pluginVars>>

NextTransform == TransformRoundTrip

SpecTransform == InitTransform /\ [][NextTransform]_vars

----------------------------------------------------------------------------
(* Specification of the router                                             *)

InitRouter ==
    /\ current \in [providerID : ProviderIDs, modelID : RouterModelIDs]
    /\ usageData \in UsageMaps
    /\ routerOut = NotCalled
    /\ IdleTransform
    /\ IdleAdapters
    /\ IdleAggregator
    /\ IdleUtilities

PickBestProvider ==
    /\ ~routerOut.called
    /\ routerOut' = [called |-> TRUE,
                     candidates |-> SortedCandidates(current, usageData),
                     ret |-> pickBestProvider(current, usageData)]
    /\ UNCHANGED <<tmIn, tmOut, current, usageData, adapterVars, aggVars, fnVars, raceVars, pluginVars>>

NextRouter == PickBestProvider

SpecRouter == InitRouter /\ [][NextRouter]_vars

----------------------------------------------------------------------------
(* Specification of the adapters over the shared cache file                *)

\* timestamps of the entries the file holds at the start: written just now,
\* three minutes ago, eleven minutes ago, or not in the range of Date
InitialTimestamps ==
    {OkTime(0), OkTime(-(3 * DEFAULT_CACHE_TTL_MS)),
     OkTime(-(STALE_THRESHOLD_MS + DEFAULT_CACHE_TTL_MS)),
     AboveDateRange, BelowDateRange}

InvalidEntry == [timestamp |-> Null, data |-> Null]

InitialEntries(p) ==
    {InvalidEntry} \cup
    {[timestamp |-> Some(ts),
      data |-> Some(NormalizedSnapshot(p, IF ts.range = "ok" THEN ts.ms ELSE 0))] :
        ts \in InitialTimestamps}

\* the providers whose adapter is called, and whose entries the file may hold
CalledProviders == ProviderIDs

MaxEntries == 2

\* the file at the start: absent, unusable, or an object of at most MaxEntries entries
InitialFiles ==
    {AbsentFile, MalformedFile, PrimitiveFile} \cup
    UNION {{ObjectFile(e) : e \in {f \in [ps -> UNION {InitialEntries(p) : p \in ps}] :
                                       \A p \in ps : f[p] \in InitialEntries(p)}} :
              ps \in {qs \in SUBSET CalledProviders : Cardinality(qs) <= MaxEntries}}

InitialOptions ==
    [bypassCache : BOOLEAN,
     cacheTTL : {Null, Some(STALE_THRESHOLD_MS + 2 * DEFAULT_CACHE_TTL_MS)},
     timeout : {Null}]

InitAdapters ==
    /\ now = 0
    /\ cacheFile \in InitialFiles
    /\ options \in InitialOptions
    /\ calls = [p \in ProviderIDs |-> IdleCall]
    /\ IdleTransform
    /\ IdleRouter
    /\ IdleAggregator
    /\ IdleUtilities

NextAdapters ==
    \/ \E p \in CalledProviders, token \in Tokens : StartCall(p, token, options)
    \/ \E p \in CalledProviders, ok \in BOOLEAN : ReceiveHeaders(p, ok)
    \/ \E p \in CalledProviders : TimerFires(p)
    \/ \E p \in CalledProviders : NetworkFails(p)
    \/ \E p \in CalledProviders : FetchSucceeds(p)
    \/ \E p \in CalledProviders, body \in {"unparsable", "unreadable"} : FetchFails(p, body)
    \/ Tick

SpecAdapters == InitAdapters /\ [][NextAdapters]_vars

----------------------------------------------------------------------------
(* Specification of getUsage over the adapters                             *)

\* a value of the tokens object: undefined, null, or a token
TokenValues ==
    {[defined |-> FALSE, token |-> Null]} \cup
    {[defined |-> TRUE, token |-> t] : t \in {Null, Some("token")}}

\* Partial<Record<ProviderID, string | null | undefined>>
TokenMaps == UNION {[ps -> TokenValues] : ps \in SUBSET ProviderIDs}

\* the file at the start: absent, or one entry, written just now or with a
\* timestamp beyond the range of Date
AggregatorFiles ==
    {AbsentFile} \cup
    {ObjectFile([q \in {p} |-> [timestamp |-> Some(ts),
                                data |-> Some(NormalizedSnapshot(p, 0))]]) :
        p \in ProviderIDs, ts \in {OkTime(0), AboveDateRange}}

\* the usage the plugin routes on: anthropic ahead of pace, github-copilot behind
RoutedUsage ==
    [p \in {"anthropic", "github-copilot"} |->
        [data |-> Some([primary |-> Some([usedPercent |-> Some(30),
                                          paceDelta |-> Some(IF p = "anthropic" THEN 20 ELSE -15)]),
                        secondary |-> Null])]]

\* the plugin hands the model of the last response to pickBestProvider once
\* getUsage has returned
RouteAfterUsage ==
    /\ usageCall.pc = "returned"
    /\ PickBestProvider

InitAggregator ==
    /\ now = 0
    /\ cacheFile \in AggregatorFiles
    /\ options \in [bypassCache : BOOLEAN, cacheTTL : {Null}, timeout : {Null}]
    /\ calls = [p \in ProviderIDs |-> IdleCall]
    /\ usageCall \in [pc : {"idle"}, tokens : TokenMaps, testMode : BOOLEAN,
                      scenario : {"over-pace", "copilot-high", "other"},
                      dispatched : {{}}, results : {<<>>}]
    /\ current = [providerID |-> "anthropic", modelID |-> <<"claude", "-", "4", ".", "4">>]
    /\ usageData = RoutedUsage
    /\ routerOut = NotCalled
    /\ IdleTransform
    /\ IdleUtilities

NextAggregator ==
    \/ GetUsage
    \/ GetUsageSettles
    \/ RouteAfterUsage
    \/ \E p \in ProviderIDs, ok \in BOOLEAN : ReceiveHeaders(p, ok)
    \/ \E p \in ProviderIDs : TimerFires(p)
    \/ \E p \in ProviderIDs : NetworkFails(p)
    \/ \E p \in ProviderIDs : FetchSucceeds(p)
    \/ \E p \in ProviderIDs, body \in {"unparsable", "unreadable"} : FetchFails(p, body)
    \/ Tick

SpecAggregator == InitAggregator /\ [][NextAggregator]_vars

----------------------------------------------------------------------------
(* Specification of two processes over the shared cache file               *)

\* the providers whose adapters run, each in its own process
RaceProviders == {"anthropic", "github-copilot"}

\* the file at the start, as the adapters leave it: absent, or an object with
\* entries written just now or eleven minutes ago
RaceFiles ==
    {AbsentFile} \cup
    UNION {{ObjectFile(e) :
              e \in [ps -> {[timestamp |-> Some(OkTime(ms)),
                             data |-> Some([provider |-> p, computedAt |-> ms])] :
                               p \in ps,
                               ms \in {0, -(STALE_THRESHOLD_MS + DEFAULT_CACHE_TTL_MS)}}]} :
              ps \in SUBSET ProviderIDs}

InitRace ==
    /\ now = 0
    /\ cacheFile \in {f \in RaceFiles :
                         \A q \in DOMAIN f.entries : Val(f.entries[q].data).provider = q}
    /\ options \in [bypassCache : BOOLEAN, cacheTTL : {Null}, timeout : {Null}]
    /\ calls = [p \in ProviderIDs |-> IdleCall]
    /\ IdleRace
    /\ IdleTransform
    /\ IdleRouter
    /\ IdleAggregator
    /\ IdleFn
    /\ IdlePlugin

NextRace ==
    \/ \E p \in RaceProviders : ProcessCalls(p)
    \/ \E p \in RaceProviders, ok \in BOOLEAN : ReceiveHeaders(p, ok)
    \/ \E p \in RaceProviders : TimerFires(p)
    \/ \E p \in RaceProviders : NetworkFails(p)
    \/ \E p \in RaceProviders, body \in {"unparsable", "unreadable"} : FetchFails(p, body)
    \/ \E p \in RaceProviders : UpdateReads(p)
    \/ \E p \in RaceProviders : UpdateTruncates(p)
    \/ \E p \in RaceProviders : UpdateWrites(p)
    \/ Tick

SpecRace == InitRace /\ [][NextRace]_vars

----------------------------------------------------------------------------
(* Specification of the normalization                                      *)

\* a field that may be missing
Optional(S) == {Null} \cup {Some(v) : v \in S}

\* resets_at, quota_reset_date: a date (in minutes), or a text that is none
ResponseDates == {[parsable |-> TRUE, at |-> 100], [parsable |-> FALSE, at |-> 0]}

AnthropicResponses ==
    LET Windows == [utilization : Optional({37}), resets_at : Optional(ResponseDates)]
    IN [five_hour : Optional(Windows), seven_day : Optional(Windows)]

CodexResponses ==
    LET Windows == [used_percent : Optional({37}),
                    limit_window_seconds : Optional({18000, 604800}),
                    reset_at : Optional({6000})]
    IN [rate_limit : Optional([primary_window : Optional(Windows),
                               secondary_window : Optional(Windows)])]

CopilotResponses ==
    [quota_snapshots : Optional([premium_interactions :
                                    Optional([percent_remaining : Optional({63})])]),
     quota_reset_date : Optional(ResponseDates)]

Responses(p) ==
    CASE p = "anthropic" -> AnthropicResponses
      [] p = "openai" -> CodexResponses
      [] p = "github-copilot" -> CopilotResponses

InitNormalize ==
    /\ fnIn \in UNION {[fn : {"normalize"}, provider : {p}, data : Responses(p), now : {0}] :
                          p \in ProviderIDs}
    /\ fnOut = NotCalled
    /\ IdleTransform
    /\ IdleRouter
    /\ IdleAdapters
    /\ IdleAggregator
    /\ IdleRace
    /\ IdlePlugin

\* the adapter normalizes the body of the response
Normalize ==
    /\ fnIn.fn = "normalize"
    /\ ~fnOut.called
    /\ fnOut' = [called |-> TRUE,
                 out |-> normalizeUsage(fnIn.provider, fnIn.data, fnIn.now)]
    /\ UNCHANGED <<fnIn, routerVars, adapterVars, aggVars, raceVars, pluginVars>>

NextNormalize == Normalize

SpecNormalize == InitNormalize /\ [][NextNormalize]_vars

----------------------------------------------------------------------------
(* Specification of the plugin's event handler                             *)

InitPlugin ==
    /\ IdlePlugin
    /\ IdleTransform
    /\ IdleRouter
    /\ IdleAdapters
    /\ IdleAggregator
    /\ IdleFn
    /\ IdleRace

NextPlugin ==
    \/ \E type \in EventTypes, sessionID \in Sessions : HandleEvent(type, sessionID)
    \/ ClockAdvances

SpecPlugin == InitPlugin /\ [][NextPlugin]_vars

----------------------------------------------------------------------------
(* Specification of the pace computation                                   *)

MaxLabelLen == 3

\* window labels: every text of at most MaxLabelLen tokens
WindowLabels == SeqsUpTo({"0", "1", "5", "7", "h", "d", "monthly"}, MaxLabelLen)

\* usedPercent
UsedPercents == {Num(0), Num(37), Num(100)}

\* resetsAt: null, a text that is no date, or a date (in minutes)
ResetsAt ==
    {Null, Some([parsable |-> FALSE, at |-> 0])} \cup
    {Some([parsable |-> TRUE, at |-> t]) :
        t \in {-30, 0, 1, 45, 60, 100, 290, 300, 400, 1404, 1439, 10000}}

InitPace ==
    /\ fnIn \in [fn : {"calculatePaceDelta"}, usedPercent : UsedPercents,
                  window : WindowLabels, resetsAt : ResetsAt, now : {0, 90}]
    /\ fnOut = NotCalled
    /\ IdleTransform
    /\ IdleRouter
    /\ IdleAdapters
    /\ IdleAggregator
    /\ IdleRace
    /\ IdlePlugin

CalculatePaceDelta ==
    /\ fnIn.fn = "calculatePaceDelta"
    /\ ~fnOut.called
    /\ fnOut' = [called |-> TRUE,
                 ret |-> calculatePaceDelta(fnIn.usedPercent, fnIn.window,
                                            fnIn.resetsAt, fnIn.now)]
    /\ UNCHANGED <<fnIn, routerVars, adapterVars, aggVars, raceVars, pluginVars>>

NextPace == CalculatePaceDelta

SpecPace == InitPace /\ [][NextPace]_vars

----------------------------------------------------------------------------
(* Specification of the age tests on a cache entry                         *)

\* entry.timestamp: around the two thresholds before the times of EntryNow,
\* or not in the range of Date
EntryTimestamps ==
    {OkTime(ms) : ms \in {-1, 0, 1, DEFAULT_CACHE_TTL_MS, STALE_THRESHOLD_MS}}
        \cup {AboveDateRange, BelowDateRange}

\* Date.now() when the entry is looked at
EntryNow ==
    {0, DEFAULT_CACHE_TTL_MS - 1, DEFAULT_CACHE_TTL_MS, STALE_THRESHOLD_MS,
     STALE_THRESHOLD_MS + 1, STALE_THRESHOLD_MS + DEFAULT_CACHE_TTL_MS}

\* the ttlMs argument
EntryTTLs == {0, DEFAULT_CACHE_TTL_MS, STALE_THRESHOLD_MS, STALE_THRESHOLD_MS + 1}

InitFreshness ==
    /\ fnIn \in [fn : {"isCacheFresh"},
                  entry : {[timestamp |-> Some(ts), data |-> Some(NormalizedSnapshot(p, 0))] :
                              ts \in EntryTimestamps, p \in {"anthropic"}},
                  ttlMs : EntryTTLs, now : EntryNow]
    /\ fnOut = NotCalled
    /\ IdleTransform
    /\ IdleRouter
    /\ IdleAdapters
    /\ IdleAggregator
    /\ IdleRace
    /\ IdlePlugin

\* isCacheFresh(entry, ttlMs) and getCacheMetadata(entry) at the same time
CheckEntryAge ==
    /\ fnIn.fn = "isCacheFresh"
    /\ ~fnOut.called
    /\ fnOut' = [called |-> TRUE,
                 fresh |-> isCacheFresh(fnIn.entry, fnIn.ttlMs, fnIn.now),
                 metadata |-> getCacheMetadata(fnIn.entry, fnIn.now)]
    /\ UNCHANGED <<fnIn, routerVars, adapterVars, aggVars, raceVars, pluginVars>>

NextFreshness == CheckEntryAge

SpecFreshness == InitFreshness /\ [][NextFreshness]_vars

----------------------------------------------------------------------------
(* Properties of the router                                                *)

RouterCalled == routerOut.called
Routed == routerOut.called /\ routerOut.candidates # <<>>
Returned == routerOut.called /\ ~IsNull(routerOut.ret)

\* the usage map holds a snapshot for the provider
HasSnapshot(p) == p \in DOMAIN usageData /\ ~IsNull(usageData[p].data)
SnapshotOf(p) == Val(usageData[p].data)

CandidateOf(p) ==
    CHOOSE c \in {routerOut.candidates[i] : i \in 1..Len(routerOut.candidates)} :
        c.providerID = p

CandidateProviders == {routerOut.candidates[i].providerID : i \in 1..Len(routerOut.candidates)}

\* C3: pickBestProvider never has an unavailable candidate as its winner when at
\* least one candidate is available: the candidate sorted first is then
\* available, and a returned result is that candidate.
C3_WinnerAvailable ==
    Routed =>
        LET cands == routerOut.candidates IN
        /\ (\E i \in 1..Len(cands) : cands[i].available) => cands[1].available
        /\ Returned => /\ Val(routerOut.ret).providerID = cands[1].providerID
                       /\ cands[1].available

\* an unavailable current provider loses to an available alternate
C3_Witness ==
    /\ Returned
    /\ ~CandidateOf(current.providerID).available
    /\ Val(routerOut.ret).providerID # current.providerID

\* C4: a candidate whose provider has no snapshot in the usage map (no entry, or
\* an entry with data = null) is unavailable with score +infinity, and is never
\* chosen over a provider that has data.
C4_NoSnapshotIsUnavailable ==
    Routed =>
        /\ \A p \in CandidateProviders :
              ~HasSnapshot(p) => /\ ~CandidateOf(p).available
                                 /\ CandidateOf(p).score.inf
        /\ (Returned /\ \E p \in CandidateProviders : HasSnapshot(p))
              => HasSnapshot(Val(routerOut.ret).providerID)

TranslatableSomewhere ==
    \E g \in 1..Len(ROUTABLE_PROVIDER_GROUPS) :
        /\ SeqIncludes(ROUTABLE_PROVIDER_GROUPS[g], current.providerID)
        /\ \E i \in 1..Len(ROUTABLE_PROVIDER_GROUPS[g]) :
              /\ ROUTABLE_PROVIDER_GROUPS[g][i] # current.providerID
              /\ ~IsNull(transformModelID(current.modelID, current.providerID,
                                          ROUTABLE_PROVIDER_GROUPS[g][i]))

\* C6: pickBestProvider returns null whenever the current model has no
\* translation into an alternate provider of a group of the current provider,
\* which is exactly when isRoutableModel is false, whatever the usage map holds.
C6_NotRoutableReturnsNull ==
    RouterCalled =>
        /\ TranslatableSomewhere <=> isRoutableModel(current.modelID, current.providerID)
        /\ ~TranslatableSomewhere => IsNull(routerOut.ret)

\* a model without translation, with usage data for its provider
C6_Witness ==
    /\ RouterCalled
    /\ ~TranslatableSomewhere
    /\ HasSnapshot(current.providerID)
    /\ getAlternateProviders(current.providerID) # <<>>
    /\ IsNull(routerOut.ret)

C8_OneWindow ==
    Routed =>
        \A p \in CandidateProviders :
            LET c == CandidateOf(p) IN
            IF ~HasSnapshot(p)
              THEN IsNull(c.paceDelta) /\ IsNull(c.usedPercent)
            ELSE IF ~IsNull(SnapshotOf(p).secondary)
              THEN /\ c.paceDelta = Val(SnapshotOf(p).secondary).paceDelta
                   /\ c.usedPercent = Val(SnapshotOf(p).secondary).usedPercent
            ELSE IF ~IsNull(SnapshotOf(p).primary)
              THEN /\ c.paceDelta = Val(SnapshotOf(p).primary).paceDelta
                   /\ c.usedPercent = Val(SnapshotOf(p).primary).usedPercent
            ELSE IsNull(c.paceDelta) /\ IsNull(c.usedPercent)

ClaudeOnAnthropic ==
    /\ current.providerID = "anthropic"
    /\ current.modelID = <<"claude", "-", "sonnet", "-", "4", "-", "4", "-", "20250929">>

PrimaryOnly(pace) ==
    [data |-> Some([primary |-> Some([usedPercent |-> Some(30), paceDelta |-> Some(pace)]),
                    secondary |-> Null])]

\* C9: switched is true iff the winner is not the current provider; a switch is
\* explained by "has most headroom" for a negative pace, "selected ... but best
\* available" for a positive pace and "no pace data" for a null pace; staying is
\* explained as already best.  Current A at +20 with routable B at -15 gives B,
\* switched; current A at -10 with B unavailable gives A, not switched.
C9_SwitchedAndReason ==
    /\ Returned =>
          LET r == Val(routerOut.ret)
              winner == CandidateOf(r.providerID)
          IN
          /\ r.switched <=> r.providerID # current.providerID
          /\ ~r.switched => r.reason = "staying on (already best)"
          /\ (r.switched /\ ~IsNull(winner.paceDelta) /\ Val(winner.paceDelta) < 0)
                => r.reason = "has most headroom"
          /\ (r.switched /\ ~IsNull(winner.paceDelta) /\ Val(winner.paceDelta) > 0)
                => r.reason = "selected (but best available)"
          /\ (r.switched /\ IsNull(winner.paceDelta))
                => r.reason = "selected (no pace data)"
    /\ (/\ RouterCalled /\ ClaudeOnAnthropic
        /\ usageData = [p \in {"anthropic", "github-copilot"} |->
                           IF p = "anthropic" THEN PrimaryOnly(20) ELSE PrimaryOnly(-15)])
          => /\ Returned
             /\ Val(routerOut.ret).providerID = "github-copilot"
             /\ Val(routerOut.ret).switched
             /\ Val(routerOut.ret).reason = "has most headroom"
    /\ (/\ RouterCalled /\ ClaudeOnAnthropic
        /\ usageData = [p \in {"anthropic", "github-copilot"} |->
                           IF p = "anthropic" THEN PrimaryOnly(-15) ELSE [data |-> Null]])
          => /\ Returned
             /\ Val(routerOut.ret).providerID = "anthropic"
             /\ ~Val(routerOut.ret).switched

\* the scenario of the switch to the provider with most headroom
C9_Witness ==
    /\ Returned /\ ClaudeOnAnthropic
    /\ usageData = [p \in {"anthropic", "github-copilot"} |->
                       IF p = "anthropic" THEN PrimaryOnly(20) ELSE PrimaryOnly(-15)]
    /\ Val(routerOut.ret).switched
    /\ Val(routerOut.ret).reason = "has most headroom"

----------------------------------------------------------------------------
(* Properties of the model ID translation                                  *)

InSameGroup(a, b) ==
    \E g \in 1..Len(ROUTABLE_PROVIDER_GROUPS) :
        SeqIncludes(ROUTABLE_PROVIDER_GROUPS[g], a) /\ SeqIncludes(ROUTABLE_PROVIDER_GROUPS[g], b)

\* C10: for the two providers A, B of a group and every model ID m that
\* translates from A to B, translating the result back from B to A gives
\* normalizeModelID(m).
C10_RoundTrip ==
    (/\ tmOut.called
     /\ tmIn.from # tmIn.to
     /\ InSameGroup(tmIn.from, tmIn.to)
     /\ ~IsNull(tmOut.out))
        => tmOut.back = Some(normalizeModelID(tmIn.modelID))

\* the name as text, lowered or not, begins with a word of the family
Lowered(s) == [i \in 1..Len(s) |-> ToLowerCase(s[i])]

InClaudeFamily(name) == Len(name) >= 1 /\ name[1] = "claude"

InOpenAIFamily(name) ==
    \/ Len(name) >= 2 /\ name[1] = "gpt" /\ name[2] = "-"
    \/ Len(name) >= 2 /\ name[1] = "o" /\ name[2] \in DigitTokens
    \/ Len(name) >= 1 /\ name[1] = "codex"

\* the name is outside the family recognised for the pair of providers
OutsideFamily(name, from, to) ==
    \/ {from, to} = {"anthropic", "github-copilot"} /\ ~InClaudeFamily(name)
    \/ {from, to} = {"openai", "github-copilot"} /\ ~InOpenAIFamily(name)

\* C11 (as stated): transformModelID(m, from, to) with from # to returns null
\* exactly when the normalized name does not start with "claude" (anthropic /
\* github-copilot), does not start with "gpt-", "o<digit>" or "codex" (openai /
\* github-copilot), or the two providers share no group.
C11_NullIffOutsideFamily_AsStated ==
    (tmOut.called /\ tmIn.from # tmIn.to) =>
        (IsNull(tmOut.out) <=>
            \/ ~InSameGroup(tmIn.from, tmIn.to)
            \/ OutsideFamily(normalizeModelID(tmIn.modelID), tmIn.from, tmIn.to))

\* C11 (amended): the same, the prefixes being compared with the lowered
\* normalized name, so that "Claude-4" is in the family.
C11_NullIffOutsideFamily ==
    (tmOut.called /\ tmIn.from # tmIn.to) =>
        (IsNull(tmOut.out) <=>
            \/ ~InSameGroup(tmIn.from, tmIn.to)
            \/ OutsideFamily(Lowered(normalizeModelID(tmIn.modelID)), tmIn.from, tmIn.to))

\* a capitalised Claude name is translated between anthropic and github-copilot
C11_Witness ==
    /\ tmOut.called
    /\ tmIn.from = "github-copilot" /\ tmIn.to = "anthropic"
    /\ tmIn.modelID = <<"Claude", "-", "4", ".", "4">>
    /\ tmOut.out = Some(<<"Claude", "-", "4", "-", "4">>)

----------------------------------------------------------------------------
(* Properties of the adapters                                              *)

\* the shared cache file holds an entry for the provider
HoldsEntry(file, p) ==
    /\ file.kind = "object"
    /\ p \in DOMAIN file.entries
    /\ ~IsInvalidEntry(file.entries[p])

\* the step in which the call of p leaves its fetch through the catch block
FailsFetch(p) ==
    /\ calls[p].pc \in {"fetching", "reading"}
    /\ calls'[p].pc \notin {"fetching", "reading"}
    /\ ~IsNull(calls'[p].caught)

\* C1: whenever the live fetch of an adapter fails and the shared cache holds an
\* entry for its provider, of any age, the adapter returns that entry's snapshot
\* as data, together with the error and with cache metadata.
C1_StaleFallback ==
    [][\A p \in ProviderIDs :
          (FailsFetch(p) /\ HoldsEntry(cacheFile, p)) =>
              /\ calls'[p].pc = "returned"
              /\ Val(calls'[p].result).data = cacheFile.entries[p].data
              /\ Val(calls'[p].result).error = calls'[p].caught
              /\ ~IsNull(Val(calls'[p].result).cache)]_vars

\* C2: an adapter never raises: whatever the token, the options, the content of
\* the cache file and the outcome of the fetch, its call ends by returning a
\* UsageResult.
C2_AdaptersNeverRaise == \A p \in ProviderIDs : calls[p].pc # "threw"

\* the call was given a token: a non-empty string
HasToken(token) == token # Null /\ token # Some("")

\* the step in which a call of the adapter of p begins
BeginsCall(p) == calls'[p].n = calls[p].n + 1

\* now - timestamp < cacheTTL for the entry the file holds for p
HoldsFreshEntry(file, p, ttlMs, t) ==
    /\ HoldsEntry(file, p)
    /\ LET ts == Val(file.entries[p].timestamp) IN
       \/ ts.range = "above"
       \/ ts.range = "ok" /\ t - ts.ms < ttlMs

\* the cacheTTL of the call: the option, or 60000 ms
EffectiveTTL == IF IsNull(options.cacheTTL) THEN 60000 ELSE Val(options.cacheTTL)

\* C12: a call with a token that does not bypass the cache and finds an entry
\* for its provider with now - timestamp < cacheTTL returns that entry's
\* snapshot with cache metadata and fetches nothing; every other call with a
\* token makes exactly one fetch attempt, never a second one; a call without
\* token makes none.
C12_FreshHitElseOneFetch ==
    [][\A p \in ProviderIDs :
          /\ (BeginsCall(p) /\ HasToken(calls'[p].token)) =>
                IF ~options.bypassCache /\ HoldsFreshEntry(cacheFile, p, EffectiveTTL, now)
                  THEN /\ calls'[p].pc = "returned"
                       /\ Val(calls'[p].result).data = cacheFile.entries[p].data
                       /\ ~IsNull(Val(calls'[p].result).cache)
                       /\ calls'[p].fetches = 0
                  ELSE calls'[p].fetches = 1
          /\ (BeginsCall(p) /\ ~HasToken(calls'[p].token)) => calls'[p].fetches = 0
          /\ ~BeginsCall(p) => calls'[p].fetches = calls[p].fetches]_vars

\* the step in which the fetch of p ends with a well-formed usage response
ReceivesUsage(p) == calls[p].pc = "reading" /\ calls'[p].outcome = "usage"

\* the previous call of p returned the snapshot of a live fetch
ReturnedLive(p) ==
    /\ calls[p].pc = "returned"
    /\ calls[p].outcome = "usage"
    /\ ~IsNull(Val(calls[p].result).data)
    /\ IsNull(Val(calls[p].result).error)

\* C13: on a successful live fetch the adapter writes the normalized snapshot
\* under its provider key with timestamp = now and returns it without error; a
\* following call for the provider within cacheTTL, not bypassing the cache, is
\* answered from the cache with that snapshot.
C13_LiveFetchIsCached ==
    [][\A p \in ProviderIDs :
          /\ ReceivesUsage(p) =>
                /\ calls'[p].pc = "returned"
                /\ Val(calls'[p].result).data = Some(NormalizedSnapshot(p, now))
                /\ IsNull(Val(calls'[p].result).error)
                /\ HoldsEntry(cacheFile', p)
                /\ cacheFile'.entries[p] = [timestamp |-> Some(OkTime(now)),
                                            data |-> Some(NormalizedSnapshot(p, now))]
          /\ (/\ ReturnedLive(p) /\ BeginsCall(p) /\ HasToken(calls'[p].token)
              /\ ~options.bypassCache
              /\ now - Val(Val(calls[p].result).data).computedAt < EffectiveTTL) =>
                /\ calls'[p].pc = "returned"
                /\ calls'[p].fetches = 0
                /\ Val(calls'[p].result).data = Val(calls[p].result).data
                /\ ~IsNull(Val(calls'[p].result).cache)]_vars

\* C14: when the live fetch of an adapter fails and the shared cache has no
\* entry for its provider, the result is { data: null, error } without cache
\* metadata.
C14_ErrorOnlyWithoutEntry ==
    [][\A p \in ProviderIDs :
          (FailsFetch(p) /\ ~HoldsEntry(cacheFile, p)) =>
              /\ calls'[p].pc = "returned"
              /\ IsNull(Val(calls'[p].result).data)
              /\ ~IsNull(Val(calls'[p].result).error)
              /\ Val(calls'[p].result).error = calls'[p].caught
              /\ Val(Val(calls'[p].result).error).code \in ErrorCodes
              /\ IsNull(Val(calls'[p].result).cache)]_vars

\* a fetch timed out while the file held an entry of another provider only
C14_Witness ==
    /\ calls["anthropic"].pc = "returned"
    /\ calls["anthropic"].outcome = "timeout"
    /\ cacheFile.kind = "object" /\ DOMAIN cacheFile.entries = {"openai"}
    /\ ~IsInvalidEntry(cacheFile.entries["openai"])
    /\ calls["anthropic"].result =
          Some(UsageResult("anthropic", Null,
                           Some(ProviderUsageError("TIMEOUT", Some(Thrown("AbortError")))),
                           Null))

\* C15: a call whose token is null or absent returns { provider, data: null }
\* at once: no error, no cache metadata, no read of the cache file, no fetch;
\* and no UsageResult ever carries the error code AUTH_MISSING.
C15_NoTokenNoWork ==
    [][\A p \in ProviderIDs :
          /\ (BeginsCall(p) /\ IsNull(calls'[p].token)) =>
                /\ calls'[p].pc = "returned"
                /\ calls'[p].result = Some(UsageResult(p, Null, Null, Null))
                /\ calls'[p].reads = 0
                /\ calls'[p].fetches = 0
                /\ cacheFile' = cacheFile
          /\ (calls'[p].result # Null /\ Val(calls'[p].result).error # Null) =>
                Val(Val(calls'[p].result).error).code # "AUTH_MISSING"]_vars

\* a call without token returned while the file held a fresh entry for it
C15_Witness ==
    /\ calls["github-copilot"].pc = "returned"
    /\ calls["github-copilot"].token = Null
    /\ calls["github-copilot"].origin = "no-token"
    /\ HoldsFreshEntry(cacheFile, "github-copilot", EffectiveTTL, now)
    /\ ~options.bypassCache

\* the error of the result the adapter of p returned
ErrorOf(p) == Val(Val(calls[p].result).error)

\* C16: the error of a UsageResult has code API_ERROR exactly when the
\* provider answered with a non-success HTTP status, TIMEOUT exactly when the
\* fetch exceeded the timeout, and UNKNOWN, with the original cause kept, for
\* every other failure (network failure, unparsable body, exception during
\* normalization).
C16_ErrorCodes ==
    \A p \in ProviderIDs :
        (calls[p].pc = "returned" /\ Val(calls[p].result).error # Null) =>
            /\ ErrorOf(p).code = "API_ERROR" <=> calls[p].outcome = "http-status"
            /\ ErrorOf(p).code = "TIMEOUT" <=> calls[p].outcome = "timeout"
            /\ calls[p].outcome \notin {"http-status", "timeout"} =>
                  /\ ErrorOf(p).code = "UNKNOWN"
                  /\ ErrorOf(p).cause # Null

\* the adapter of p is waiting for the provider
AwaitsProvider(p) == calls[p].pc \in {"fetching", "reading"}

\* C17: no call blocks indefinitely, even when the provider never responds or
\* stops sending after the response headers: a call that has waited for the
\* provider for the timeout (5000 ms by default) is aborted, which ends it with
\* a TIMEOUT error.  Stated on states: whenever a call still waits once its
\* timeout has elapsed, its abort is due.
C17_WaitEndsAtTimeout ==
    \A p \in ProviderIDs :
        (AwaitsProvider(p) /\ now - calls[p].startedAt >= 5000) => ENABLED TimerFires(p)

----------------------------------------------------------------------------
(* Properties of getUsage                                                  *)

\* the input of getUsage has a token entry for the provider
TokenSupplied(p) == p \in DOMAIN usageCall.tokens /\ usageCall.tokens[p].defined

\* C18: the output map of getUsage has exactly the keys of the providers for
\* which the input supplied a token: a provider absent from the token map is
\* absent from the output, and every provider with a token is present.
C18_OutputKeysAreTokenKeys ==
    usageCall.pc = "returned" =>
        DOMAIN usageCall.results = {p \in ProviderIDs : TokenSupplied(p)}

\* C19: getUsage returns only after the adapters of all requested providers
\* have settled, and a failing adapter neither changes another provider's
\* result nor makes getUsage raise: every entry of the output is the result of
\* that provider's own adapter call.
C19_AggregatorNeverRaises ==
    /\ usageCall.pc # "threw"
    /\ (usageCall.pc = "returned" /\ ~usageCall.testMode) =>
          \A p \in usageCall.dispatched :
              /\ calls[p].pc = "returned"
              /\ usageCall.results[p] = Val(calls[p].result)

\* C20: every UsageResult whose data is non-null and did not come from a
\* successful live fetch made in the same call carries cache metadata: the
\* results the adapters return and the entries of the output of getUsage.
C20_CacheMetaUnlessLive ==
    /\ \A p \in ProviderIDs :
          (/\ calls[p].pc = "returned"
           /\ Val(calls[p].result).data # Null
           /\ calls[p].outcome # "usage") => Val(calls[p].result).cache # Null
    /\ usageCall.pc = "returned" =>
          \A p \in DOMAIN usageCall.results :
              (/\ usageCall.results[p].data # Null
               /\ ~(p \in usageCall.dispatched /\ calls[p].outcome = "usage"))
                  => usageCall.results[p].cache # Null

----------------------------------------------------------------------------
(* Properties of the results and of the cache file                         *)

\* the call of p has returned a result with a snapshot
ReturnedData(p) == calls[p].pc = "returned" /\ Val(calls[p].result).data # Null

IsValidCacheFile(file) ==
    /\ file.kind = "object"
    /\ \A q \in DOMAIN file.entries : ~IsInvalidEntry(file.entries[q])

\* C24: reading the cache never raises and takes absence or corruption for an
\* empty cache: when the file is missing, is no JSON object, or lacks a sound
\* entry for the provider, a call with a token goes on to a live fetch, and a
\* successful fetch leaves a valid cache file holding the provider's entry.
C24_CorruptionIsEmptyCache ==
    [][\A p \in ProviderIDs :
          ~HoldsEntry(cacheFile, p) =>
              /\ (BeginsCall(p) /\ HasToken(calls'[p].token))
                    => calls'[p].pc = "fetching"
              /\ ReceivesUsage(p)
                    => IsValidCacheFile(cacheFile') /\ HoldsEntry(cacheFile', p)]_vars

\* now - entry.timestamp is less than, or more than, d
AgeBelow(d) ==
    LET ts == Val(fnIn.entry.timestamp) IN
    ts.range = "above" \/ (ts.range = "ok" /\ fnIn.now - ts.ms < d)
AgeAbove(d) ==
    LET ts == Val(fnIn.entry.timestamp) IN
    ts.range = "below" \/ (ts.range = "ok" /\ fnIn.now - ts.ms > d)

\* C25: for every cache entry and every TTL, isCacheFresh(entry, ttl) holds iff
\* now - entry.timestamp < ttl, and the cache metadata of the entry has
\* stale = true iff now - entry.timestamp > 600000 ms, whatever the TTL.
C25_FreshAndStaleByAge ==
    (fnIn.fn = "isCacheFresh" /\ fnOut.called) =>
        /\ fnOut.fresh <=> AgeBelow(fnIn.ttlMs)
        /\ ~fnOut.metadata.threw
        /\ fnOut.metadata.meta.stale <=> AgeAbove(600000)

\* the step in which the call of p returns through the given return statement
ReturnsThrough(p, origins) ==
    /\ calls[p].pc \notin {"returned", "threw"} \/ calls'[p].n # calls[p].n
    /\ calls'[p].pc = "returned"
    /\ calls'[p].origin \in origins

\* C26: the shared cache file is changed only by an adapter call whose live
\* fetch succeeded: a step in which a call returns for a missing token, from a
\* fresh cache hit or after a failed fetch (with or without stale fallback),
\* and every call of pickBestProvider, leave the file as it was.
C26_OnlyLiveFetchWrites ==
    [][/\ cacheFile' # cacheFile =>
             \E p \in ProviderIDs : ReceivesUsage(p) /\ calls'[p].origin = "live"
       /\ \A p \in ProviderIDs :
             ReturnsThrough(p, {"no-token", "fresh-cache", "stale-cache", "error-only"})
                => cacheFile' = cacheFile
       /\ routerOut' # routerOut => cacheFile' = cacheFile]_vars

\* pickBestProvider has been called after a getUsage in which one adapter
\* wrote the file after its live fetch, one failed and one had no token
C26_Witness ==
    /\ routerOut.called
    /\ \E p, q, r \in ProviderIDs :
          /\ calls[p].origin = "live" /\ HoldsEntry(cacheFile, p)
          /\ calls[q].origin \in {"stale-cache", "error-only"}
          /\ calls[r].origin = "no-token"

\* the step in which getUsage hands the token and the options to the adapters
DispatchesCalls == usageCall.pc = "idle" /\ usageCall'.pc = "waiting"

\* C27: the three adapters implement one protocol: handed the same token, the
\* same options, the same cache entry and the same fetch outcome they do the
\* same; in particular each adapter called by getUsage works with the token
\* the aggregator passed and with the caller's bypassCache and cacheTTL.
C27_OneProtocol ==
    [][DispatchesCalls =>
          \A p \in usageCall'.dispatched :
              /\ calls'[p].token = usageCall.tokens[p].token
              /\ calls'[p].bypassCache = options.bypassCache
              /\ calls'[p] = BeginCall(p, usageCall.tokens[p].token, options)]_vars

\* the file is unreadable, or an object each of whose entries is a sound
\* entry with a snapshot of the provider of its key, taken no later than now
EntriesAreOwn(file) ==
    /\ file.kind \in {"absent", "malformed", "object"}
    /\ \A q \in DOMAIN file.entries :
          /\ ~IsInvalidEntry(file.entries[q])
          /\ Val(file.entries[q].data).provider = q
          /\ Val(file.entries[q].data).computedAt <= now

\* the step in which the process of p finishes writing the file
CompletesWrite(p) == writers[p].pc = "truncated" /\ writers'[p].pc = "idle"

----------------------------------------------------------------------------
(* Properties of the normalization                                         *)

\* a usage window of a snapshot
IsWindow(w) == DOMAIN w = {"usedPercent", "window", "resetsAt", "paceDelta"}

\* C29: for any upstream response that lacks fields, the normalization of an
\* adapter does not fail: it gives a snapshot in which primary and secondary
\* are each a window or null.
C29_NormalizationNeverFails ==
    (fnIn.fn = "normalize" /\ fnOut.called) =>
        /\ ~fnOut.out.threw
        /\ \A w \in {fnOut.out.snapshot.primary, fnOut.out.snapshot.secondary} :
              IsNull(w) \/ IsWindow(Val(w))

----------------------------------------------------------------------------
(* Properties of the plugin                                                *)

\* C30: for any sequence of session.idle events, of one session or of several
\* interleaved, the plugin never processes two events of the same session
\* less than 2000 ms apart: an event of a session that arrives less than
\* 2000 ms after a processed event of that session is skipped.
C30_DebouncePerSession ==
    \A i, j \in 1..Len(plugin.events) :
        (/\ i < j
         /\ plugin.events[i].type = "session.idle"
         /\ plugin.events[j].type = "session.idle"
         /\ plugin.events[i].sessionID = plugin.events[j].sessionID
         /\ plugin.events[i].processed
         /\ plugin.events[j].at - plugin.events[i].at < 2000)
        => ~plugin.events[j].processed

----------------------------------------------------------------------------
(* Properties of calculatePaceDelta                                        *)

PaceCalled == fnIn.fn = "calculatePaceDelta" /\ fnOut.called

\* the label is a number followed by h or d
IsHoursOrDays(window) ==
    /\ Len(window) >= 2
    /\ window[Len(window)] \in {"h", "d"}
    /\ \A i \in 1..(Len(window) - 1) : window[i] \in Digits

\* the length of a window of N hours or N days
WindowDuration(window) ==
    parseInt10(SubSeq(window, 1, Len(window) - 1))
        * (IF window[Len(window)] = "h" THEN 60 ELSE 24 * 60)

\* resetsAt is a date
IsDate(resetsAt) == ~IsNull(resetsAt) /\ Val(resetsAt).parsable

\* resetsAt - now, and the part of the window that has passed
Remaining == Val(fnIn.resetsAt).at - fnIn.now
Elapsed == WindowDuration(fnIn.window) - Remaining

\* C22: calculatePaceDelta returns null, neither a number nor NaN, whenever
\* resetsAt is null or no parsable timestamp, the window label is not <N>h or
\* <N>d, or the elapsed or the remaining time of the window is not strictly
\* positive.
C22_NullOutsideWindow ==
    PaceCalled =>
        ((\/ ~IsDate(fnIn.resetsAt)
          \/ ~IsHoursOrDays(fnIn.window)
          \/ Elapsed <= 0
          \/ Remaining <= 0) => fnOut.ret = Null)

----------------------------------------------------------------------------
(* Properties of the cache updates within one process                      *)

BeginsCallWithToken(p) == BeginsCall(p) /\ HasToken(calls'[p].token)

\* C32: what happens for provider P depends only on P's own entry in the cache
\* file, whatever the entries of the other providers, a malformed one
\* included: a call that does not bypass the cache and finds P's entry fresh
\* is served that entry without a fetch, a failed fetch falls back to P's
\* entry, and a successful fetch leaves the other providers' entries in place.
C32_OwnEntryOnly ==
    [][\A p \in ProviderIDs :
          /\ (/\ BeginsCallWithToken(p)
              /\ ~calls'[p].bypassCache
              /\ HoldsFreshEntry(cacheFile, p, EffectiveTTL, now))
                => /\ calls'[p].fetches = 0
                   /\ calls'[p].pc = "returned" =>
                         Val(calls'[p].result).data = cacheFile.entries[p].data
          /\ (/\ FailsFetch(p)
              /\ HoldsEntry(cacheFile, p)
              /\ calls'[p].pc = "returned")
                => Val(calls'[p].result).data = cacheFile.entries[p].data
          /\ (ReceivesUsage(p) /\ cacheFile.kind = "object")
                => \A q \in DOMAIN cacheFile.entries \ {p} :
                      /\ q \in DOMAIN cacheFile'.entries
                      /\ cacheFile'.entries[q] = cacheFile.entries[q]]_vars

\* C33: with bypassCache = true an adapter never returns cached data as a
\* normal result: a result with cache metadata also has an error, and a result
\* with data and no error comes from a live fetch made in that call.
C33_BypassNeverServesCache ==
    options.bypassCache =>
        \A p \in ProviderIDs :
            calls[p].pc = "returned" =>
                LET result == Val(calls[p].result) IN
                /\ result.cache # Null => result.error # Null
                /\ (result.data # Null /\ result.error = Null) => calls[p].origin = "live"

----------------------------------------------------------------------------
(* Properties of the router's result                                       *)

\* the alternates of the current provider to which its model translates
TranslatableAlternates ==
    LET alternates == getAlternateProviders(current.providerID) IN
    {alternates[i] : i \in {k \in 1..Len(alternates) :
        transformModelID(current.modelID, current.providerID, alternates[k]) # Null}}

\* the score of a is not greater than that of b
ScoreAtMost(a, b) == b.score.inf \/ (~a.score.inf /\ a.score.val <= b.score.val)

----------------------------------------------------------------------------
(* Properties of results served from the cache                             *)

\* the step in which the call of p returns what the cache holds
ReturnsFromCache(p) ==
    /\ calls'[p] # calls[p]
    /\ calls'[p].pc = "returned"
    /\ calls'[p].origin \in {"fresh-cache", "stale-cache"}

----------------------------------------------------------------------------
(* Properties of the github-copilot snapshot                               *)

\* normalizeCopilotUsage was applied and gave a snapshot
CopilotSnapshotProduced ==
    /\ fnIn.fn = "normalize"
    /\ fnIn.provider = "github-copilot"
    /\ fnOut.called
    /\ ~fnOut.out.threw

\* the candidate the router builds for github-copilot from a live result
\* that carries the snapshot
CopilotCandidate(snapshot) ==
    MakeCandidate([p \in {"github-copilot"} |-> [data |-> Some(snapshot)]],
                  "github-copilot", <<"claude", "-", "4", ".", "4">>)

----------------------------------------------------------------------------
(* Range of calculatePaceDelta                                             *)

\* C38: for usedPercent in [0, 100] a number returned by calculatePaceDelta
\* lies in [-100, 100], and a window that parses to a duration of 0, such as
\* "0h" or "0d", always yields null, so that nothing is divided by zero.
C38_BoundedAndNullForZeroWindow ==
    PaceCalled =>
        /\ (fnOut.ret # Null /\ ~Val(fnOut.ret).nan) =>
               (Val(fnOut.ret).val >= -100 /\ Val(fnOut.ret).val <= 100)
        /\ (IsHoursOrDays(fnIn.window) /\ WindowDuration(fnIn.window) = 0) =>
               fnOut.ret = Null

----------------------------------------------------------------------------
(* Idempotence of normalizeModelID                                         *)

\* the ID ends in "-" and an 8-digit token, or in "-latest"
EndsInDateOrLatest(s) ==
    /\ Len(s) >= 2
    /\ s[Len(s) - 1] = "-"
    /\ s[Len(s)] \in {"20250929", "latest"}

\* C39: normalizeModelID is idempotent: normalizing a normalized model ID
\* gives the same ID, and a normalized ID never still ends in an 8-digit
\* date token or in "-latest".
C39_NormalizeIdempotent ==
    tmOut.called =>
        LET normalized == normalizeModelID(tmIn.modelID) IN
        /\ normalizeModelID(normalized) = normalized
        /\ ~EndsInDateOrLatest(normalized)

====
